---- MODULE Spec2Model ----
(***************************************************************************)
(* SimpleQueue (src/index.js): a disk-backed FIFO work queue that hands    *)
(* its items to a local handler or to a webhook, with retry and backoff.   *)
(*                                                                         *)
(* The queue runs on one JavaScript event loop.  An action of this module  *)
(* is one run-to-completion turn of that loop: a public method called by   *)
(* the application, the continuation of processQueue after an awaited      *)
(* delivery settles, a backoff timer callback, or a persistence tick.      *)
(***************************************************************************)
EXTENDS Integers, Sequences, FiniteSets, TLC

VARIABLES
    maxSize,            \* this.maxSize (constructor argument, never reassigned)
    data,               \* this.data: the buffer, a sequence of items
    discardedItems,     \* this.discardedItems: ids of rejected items, in order
    handler,            \* this.handler: Null or the registered function
    webhookUrl,         \* this.webhookUrl: Null or a string (possibly empty)
    webhookMethod,      \* this.webhookMethod
    webhookApiKey,      \* this.webhookApiKey
    listener,           \* an 'itemAdded' listener is installed on eventEmitter
    processing,         \* this.processing
    persistenceTimer,   \* this.persistenceTimer is set (setInterval pending)
    disk,               \* content of the snapshot file
    loops,              \* items awaited by suspended processQueue activations
    timers,             \* pending setTimeout callbacks, in scheduling order
    nextId,             \* identity of the next object passed to addItem
    attempts,           \* history: sink invocations made on each unfinished or
                        \*          dropped item
    fate                \* history: what became of each item

vars == <<maxSize, data, discardedItems, handler, webhookUrl, webhookMethod,
          webhookApiKey, listener, processing, persistenceTimer, disk, loops,
          timers, nextId, attempts, fate>>

(***************************************************************************)
(* Bounds of the model.                                                    *)
(***************************************************************************)
MaxItems == 2      \* number of addItem calls explored
MaxItemsWide == 3  \* number of addItem calls explored by the wide specification
MaxCap == 1        \* the bounded maxSize explored (next to 0, unbounded)

(***************************************************************************)
(* Program constants and values.                                           *)
(***************************************************************************)
MAX_RETRIES == 5

Null == "null"
Fn == "fn"                      \* a function value
Undefined == -1                 \* JavaScript undefined, in a numeric field
Missing == [state |-> "missing", items |-> <<>>]   \* no snapshot file
Corrupt == [state |-> "corrupt", items |-> <<>>]   \* a file that does not parse
File(items) == [state |-> "ok", items |-> items]   \* a file holding a JSON array

Ids == 1..MaxItemsWide
Urls == {"", "http://sink"}
Methods == {"get", "PUT"}

Truthy(v) == v # Null /\ v # ""

\* x || 0 on a numeric-or-undefined field
OrZero(v) == IF v = Undefined \/ v = 0 THEN 0 ELSE v

ToUpperCase(m) == IF m = "get" THEN "GET" ELSE m

RECURSIVE Pow2(_)
Pow2(n) == IF n = 0 THEN 1 ELSE 2 * Pow2(n - 1)

\* a backoff that grows linearly
DelayLinear(retries) == (retries + 1) * 100

Delay(retries) == Pow2(retries) * 100

SeqToSet(s) == {s[k] : k \in 1..Len(s)}

SubSeqTo(s, n) == [k \in 1..n |-> s[k]]

(***************************************************************************)
(* Persistence.                                                            *)
(***************************************************************************)
\* saveData's map + JSON.stringify: every record gets a numeric _retries
Serializable(buf) ==
    [k \in 1..Len(buf) |-> [id |-> buf[k].id, retries |-> OrZero(buf[k].retries)]]

\* saveData: the snapshot file is overwritten with the serialized buffer
SaveData(buf) == File(Serializable(buf))

\* loadData: missing or unparsable file gives []; otherwise default the
\* retry counters and truncate to maxSize
LoadData(file, cap) ==
    IF file.state # "ok" THEN <<>>
    ELSE LET parsed == [k \in 1..Len(file.items) |->
                           [id |-> file.items[k].id,
                            retries |-> OrZero(file.items[k].retries)]]
         IN  IF cap > 0 /\ Len(parsed) > cap THEN SubSeqTo(parsed, cap) ELSE parsed

InitialFiles == {Missing, Corrupt, File(<<>>)}

\* the state the constructor leaves, with or without a persistence interval
Constructed(interval) ==
    /\ maxSize \in {0, MaxCap}
    /\ disk \in InitialFiles
    /\ data = LoadData(disk, maxSize)
    /\ discardedItems = <<>>
    /\ handler = Null
    /\ webhookUrl = Null
    /\ webhookMethod = "POST"
    /\ webhookApiKey = Null
    /\ listener = FALSE
    /\ processing = FALSE
    /\ persistenceTimer = (interval > 0)
    /\ loops = {}
    /\ timers = <<>>
    /\ nextId = 1
    /\ attempts = [i \in Ids |-> 0]
    /\ fate = [i \in Ids |-> "new"]

(***************************************************************************)
(* The processing loop.  The part of the state processQueue reads and      *)
(* writes is passed around as a record q; an operator returns the set of   *)
(* records the code can leave behind when control next returns to the      *)
(* event loop.                                                             *)
(***************************************************************************)
Bundle == [data |-> data, loops |-> loops, timers |-> timers,
           attempts |-> attempts, fate |-> fate, processing |-> processing,
           handler |-> handler, webhookUrl |-> webhookUrl]

Install(q) ==
    /\ data' = q.data
    /\ loops' = q.loops
    /\ timers' = q.timers
    /\ attempts' = q.attempts
    /\ fate' = q.fate
    /\ processing' = q.processing
    /\ handler' = q.handler
    /\ webhookUrl' = q.webhookUrl

\* ids of the items in a buffer
IdsOf(buf) == {buf[k].id : k \in 1..Len(buf)}

\* history: item i is finished with (delivered, taken, cleared or lost); its
\* invocation count is only kept while it is pending and once it is dropped
Finish(q, i, how) == [q EXCEPT !.fate[i] = how, !.attempts[i] = 0]

\* getItem: the item returned, and the buffer left behind
GetItemResult(buf) == buf[1]
GetItemRest(buf, shift) == IF shift THEN Tail(buf) ELSE buf

\* the failure branch (lines 107-116 and 120-129): reschedule or drop
OnFailure(q, item) ==
    LET retries == OrZero(item.retries) IN
    IF retries < MAX_RETRIES
    THEN [q EXCEPT !.timers = Append(@, [item |-> [item EXCEPT !.retries = retries + 1],
                                         delay |-> Delay(retries)])]
    ELSE [q EXCEPT !.fate[item.id] = "dropped"]

\* one sink invocation is in flight: the activation is suspended at its await
Await(q, item) == [q EXCEPT !.loops = @ \cup {item}]

\* the while loop, from its test up to the next suspension or its exit
RECURSIVE WhileLoop(_)
WhileLoop(q) ==
    IF Len(q.data) = 0
    THEN {[q EXCEPT !.processing = FALSE]}
    ELSE LET item == GetItemResult(q.data)
             q1 == [q EXCEPT !.data = GetItemRest(@, TRUE)]
             q2 == [q1 EXCEPT !.attempts[item.id] = @ + 1]
         IN  IF q.handler # Null
             THEN \* the handler returns (a value or a promise) and the loop
                  \* awaits it, or it throws synchronously into the catch
                  {Await(q2, item)} \cup WhileLoop(OnFailure(q2, item))
             ELSE IF Truthy(q.webhookUrl)
             THEN {Await(q2, item)}
             ELSE WhileLoop(Finish(q1, item.id, "lost"))

\* a processQueue that lost its re-entry guard
GuardDropped(q) == FALSE

\* the re-entry guard of processQueue
AlreadyProcessing(q) == q.processing

\* a processQueue that starts its loop without a sink
NoSinkUnchecked(q) == FALSE

\* !this.handler && !this.webhookUrl
NoSink(q) == q.handler = Null /\ ~Truthy(q.webhookUrl)

\* a processQueue whose exit for a missing sink leaves the flag set
ProcessQueueFlagStuck(q) ==
    IF AlreadyProcessing(q) THEN {q}
    ELSE IF NoSink(q)
         THEN {[q EXCEPT !.processing = TRUE]}
         ELSE WhileLoop([q EXCEPT !.processing = TRUE])

\* processQueue, up to its first suspension or its return
ProcessQueue(q) ==
    IF AlreadyProcessing(q) THEN {q}
    ELSE IF NoSink(q)
         THEN {[q EXCEPT !.processing = FALSE]}
         ELSE WhileLoop([q EXCEPT !.processing = TRUE])

(***************************************************************************)
(* Public methods.                                                         *)
(***************************************************************************)
\* an overflow test that lets one item too many in
FullOffByOne(buf, cap) == cap > 0 /\ Len(buf) > cap

\* the overflow test of addItem
Full(buf, cap) == cap > 0 /\ Len(buf) >= cap

\* an insertion at the wrong end of the buffer
PushFront(buf, item) == <<item>> \o buf

\* this.data.push(item)
Push(buf, item) == Append(buf, item)

\* addItem(item), item a fresh object, the n-th at most
AddItemUpTo(n) ==
    /\ nextId <= n
    /\ nextId' = nextId + 1
    /\ UNCHANGED <<maxSize, webhookMethod, webhookApiKey, listener, persistenceTimer>>
    /\ IF Full(data, maxSize)
       THEN /\ discardedItems' = Append(discardedItems, nextId)
            /\ fate' = [fate EXCEPT ![nextId] = "discarded"]
            /\ UNCHANGED <<data, disk, loops, timers, attempts, processing,
                           handler, webhookUrl>>
       ELSE LET item == [id |-> nextId, retries |-> 0]
                q1 == [Bundle EXCEPT !.data = Push(@, item),
                                     !.fate[nextId] = "live"]
            IN  /\ UNCHANGED discardedItems
                /\ IF listener
                   THEN \* emit('itemAdded') calls the handler; a synchronous
                        \* throw leaves emit and rejects addItem's promise
                        LET q2 == [q1 EXCEPT !.attempts[nextId] = @ + 1] IN
                        \/ /\ Install(q2)
                           /\ UNCHANGED disk
                        \/ /\ disk' = SaveData(q2.data)
                           /\ \E q3 \in ProcessQueue(q2) : Install(q3)
                   ELSE /\ disk' = SaveData(q1.data)
                        /\ \E q3 \in ProcessQueue(q1) : Install(q3)

AddItem == AddItemUpTo(MaxItems)

AddItemWide == AddItemUpTo(MaxItemsWide)

\* getItem(shift), called by the application
GetItem ==
    /\ \E shift \in BOOLEAN :
          IF Len(data) = 0
          THEN UNCHANGED <<data, fate, attempts>>
          ELSE LET q == IF shift THEN Finish(Bundle, GetItemResult(data).id, "removed")
                                 ELSE Bundle
               IN  /\ data' = GetItemRest(data, shift)
                   /\ fate' = q.fate
                   /\ attempts' = q.attempts
    /\ UNCHANGED <<maxSize, discardedItems, handler, webhookUrl, webhookMethod,
                   webhookApiKey, listener, processing, persistenceTimer, disk,
                   loops, timers, nextId>>

\* registerHandler(fn)
RegisterHandler ==
    /\ UNCHANGED <<maxSize, discardedItems, webhookMethod, persistenceTimer,
                   disk, nextId>>
    /\ IF Truthy(webhookUrl)
       THEN UNCHANGED <<data, loops, timers, attempts, fate, processing, handler,
                        webhookUrl, webhookApiKey, listener>>
       ELSE /\ webhookApiKey' = Null
            /\ listener' = TRUE
            /\ \E q \in ProcessQueue([Bundle EXCEPT !.handler = Fn,
                                                    !.webhookUrl = Null]) :
                  Install(q)

\* registerWebhook(url, apiKey, method), url one of urls
RegisterWebhookWith(urls) ==
    /\ UNCHANGED <<maxSize, discardedItems, listener, persistenceTimer, disk, nextId>>
    /\ \E url \in urls, method \in Methods :
          IF ToUpperCase(method) \notin {"GET", "POST"} \/ handler # Null
          THEN UNCHANGED <<data, loops, timers, attempts, fate, processing,
                           handler, webhookUrl, webhookApiKey, webhookMethod>>
          ELSE /\ webhookMethod' = ToUpperCase(method)
               /\ webhookApiKey' = "key"
               /\ \E q \in ProcessQueue([Bundle EXCEPT !.webhookUrl = url,
                                                       !.handler = Null]) :
                     Install(q)

RegisterWebhook == RegisterWebhookWith(Urls)

\* registerWebhook with a URL that is not empty
RegisterEndpoint == RegisterWebhookWith(Urls \ {""})

\* a drain() that forgets the snapshot
DrainKeepsSnapshot ==
    /\ data' = <<>>
    /\ persistenceTimer' = FALSE
    /\ fate' = [i \in Ids |-> IF i \in IdsOf(data) THEN "removed" ELSE fate[i]]
    /\ attempts' = [i \in Ids |-> IF i \in IdsOf(data) THEN 0 ELSE attempts[i]]
    /\ UNCHANGED <<maxSize, discardedItems, handler, webhookUrl, webhookMethod,
                   webhookApiKey, listener, processing, loops, timers, nextId,
                   disk>>

\* drain()
Drain ==
    /\ data' = <<>>
    /\ disk' = SaveData(data')
    /\ persistenceTimer' = FALSE
    /\ fate' = [i \in Ids |-> IF i \in IdsOf(data) THEN "removed" ELSE fate[i]]
    /\ attempts' = [i \in Ids |-> IF i \in IdsOf(data) THEN 0 ELSE attempts[i]]
    /\ UNCHANGED <<maxSize, discardedItems, handler, webhookUrl, webhookMethod,
                   webhookApiKey, listener, processing, loops, timers, nextId>>

\* destroy()
Destroy ==
    /\ persistenceTimer' = FALSE
    /\ listener' = FALSE
    /\ data' = <<>>
    /\ fate' = [i \in Ids |-> IF i \in IdsOf(data) THEN "removed" ELSE fate[i]]
    /\ attempts' = [i \in Ids |-> IF i \in IdsOf(data) THEN 0 ELSE attempts[i]]
    /\ UNCHANGED <<maxSize, discardedItems, handler, webhookUrl, webhookMethod,
                   webhookApiKey, processing, disk, loops, timers, nextId>>

(***************************************************************************)
(* Turns of the event loop started by the runtime.                         *)
(***************************************************************************)
\* the awaited delivery of item settles, and processQueue resumes
Settle ==
    \E item \in loops, ok \in BOOLEAN :
       LET q0 == [Bundle EXCEPT !.loops = @ \ {item}]
           q1 == IF ok THEN Finish(q0, item.id, "delivered")
                       ELSE OnFailure(q0, item)
       IN  /\ \E q \in WhileLoop(q1) : Install(q)
           /\ UNCHANGED <<maxSize, discardedItems, webhookMethod, webhookApiKey,
                          listener, persistenceTimer, disk, nextId>>

\* setTimeout ordering: a timer fires before every timer scheduled after it
\* with an equal or longer delay
MayFire(k) == \A j \in 1..(k - 1) : timers[j].delay > timers[k].delay

RemoveAt(s, k) == [j \in 1..(Len(s) - 1) |-> IF j < k THEN s[j] ELSE s[j + 1]]

\* the callback of a backoff timer: unshift the item, call processQueue
TimerFire ==
    \E k \in 1..Len(timers) :
       /\ MayFire(k)
       /\ LET q0 == [Bundle EXCEPT !.timers = RemoveAt(@, k),
                                   !.data = <<timers[k].item>> \o @]
          IN  \E q \in ProcessQueue(q0) : Install(q)
       /\ UNCHANGED <<maxSize, discardedItems, webhookMethod, webhookApiKey,
                      listener, persistenceTimer, disk, nextId>>

\* the setInterval callback of initializePersistence
PersistTick ==
    /\ persistenceTimer
    /\ disk' = SaveData(data)
    /\ UNCHANGED <<maxSize, data, discardedItems, handler, webhookUrl,
                   webhookMethod, webhookApiKey, listener, processing,
                   persistenceTimer, loops, timers, nextId, attempts, fate>>

(***************************************************************************)
(* Specifications.                                                         *)
(*   Spec         persistenceInterval = 0 (the default), MaxItems items    *)
(*   SpecWide     the same with MaxItemsWide items                         *)
(*   SpecPersist  persistenceInterval > 0: the periodic snapshot runs      *)
(*   LiveSpec     no getItem, drain or destroy; webhooks have a URL; every *)
(*                awaited delivery settles and every timer fires           *)
(***************************************************************************)
Init == Constructed(0)

InitPersist == \E interval \in {0, 5000} : Constructed(interval)

Calls ==
    \/ GetItem
    \/ RegisterHandler
    \/ RegisterWebhook
    \/ Drain
    \/ Destroy

Next ==
    \/ AddItem
    \/ Calls
    \/ Settle
    \/ TimerFire

NextWide ==
    \/ AddItemWide
    \/ Calls
    \/ Settle
    \/ TimerFire

NextPersist ==
    \/ Next
    \/ PersistTick

NextLive ==
    \/ AddItem
    \/ RegisterHandler
    \/ RegisterEndpoint
    \/ Settle
    \/ TimerFire

Spec == Init /\ [][Next]_vars

SpecWide == Init /\ [][NextWide]_vars

SpecPersist == InitPersist /\ [][NextPersist]_vars

LiveSpec ==
    /\ Init
    /\ [][NextLive]_vars
    /\ WF_vars(Settle)
    /\ WF_vars(TimerFire)

(***************************************************************************)
(* Properties.                                                             *)
(***************************************************************************)
TimerIds(ts) == {ts[k].item.id : k \in 1..Len(ts)}

LoopIds(ls) == {item.id : item \in ls}

SinkConfigured == ~NoSink(Bundle)

\* C1: when maxSize > 0 the buffer never holds more than maxSize items,
\* whatever addItem, getItem, the loop, failures and backoff timers do.
C1_BufferWithinMaxSize == maxSize > 0 => Len(data) <= maxSize

\* C2: an item that is dropped has been handed to the sink exactly 6 times
\* (1 attempt and 5 retries), whichever the sink, and is then nowhere: not in
\* the buffer, not in the discard list, not in flight, on no timer.
C2_RetryCeiling ==
    \A i \in Ids :
       fate[i] = "dropped" =>
          /\ attempts[i] = 6
          /\ i \notin IdsOf(data) \cup SeqToSet(discardedItems)
          /\ i \notin TimerIds(timers) \cup LoopIds(loops)

\* C3: when A fails and is rescheduled while B, submitted after A, waits in
\* the buffer, B is not handed to the sink ahead of A's redelivery; so the
\* turn that reschedules A does not hand B to the sink.
C3_RetryBeforeWaiting ==
    [][\A a, b \in Ids :
          (/\ a < b
           /\ a \notin TimerIds(timers)
           /\ a \in TimerIds(timers')
           /\ b \in IdsOf(data))
          => attempts'[b] = attempts[b]]_vars

\* C4: drain() and destroy() cancel the retry timers that are pending when
\* they are called, so that none of them reinserts an item later.
C4_TeardownCancelsTimers == [][(Drain \/ Destroy) => timers' = <<>>]_vars

\* C5: after every turn the snapshot on disk holds exactly the buffer: same
\* items, same order, same retry counters.
C5_SnapshotEqualsBuffer == LoadData(disk, 0) = data

\* C6: at most one activation of the processing loop is suspended at a
\* delivery, and the processing flag is set exactly while one is; a trigger
\* that finds the flag set starts no second activation.
C6_SingleFlight ==
    /\ Cardinality(loops) <= 1
    /\ processing <=> loops # {}

\* a trigger arrived while the loop was awaiting a delivery: an item waits in
\* the buffer behind the one in flight
C6_Witness == processing /\ Cardinality(loops) = 1 /\ Len(data) > 0

\* C7: with a sink registered, every accepted item is eventually delivered
\* or dropped, and the loop eventually is idle with an empty buffer.
C7_EventuallyDeliveredOrDropped ==
    /\ \A i \in Ids :
          (fate[i] = "live" /\ SinkConfigured) ~> (fate[i] \in {"delivered", "dropped"})
    /\ SinkConfigured ~> (Len(data) = 0 /\ ~processing)

\* C8: an addItem that finds a bounded buffer full appends its item to the
\* discard list and leaves the buffer as it is; with maxSize = k and no sink
\* ever registered, k+1 submissions leave the first k items in the buffer and
\* the (k+1)-th alone in the discard list.
C8_RejectNew ==
    /\ [][(nextId' # nextId /\ maxSize > 0 /\ Len(data) >= maxSize)
            => (/\ data' = data
                /\ discardedItems' = Append(discardedItems, nextId))]_vars
    /\ [](( /\ maxSize > 0
            /\ handler = Null /\ webhookUrl = Null
            /\ \A i \in Ids : fate[i] # "removed"
            /\ nextId = maxSize + 2 )
          => ( /\ data = [k \in 1..maxSize |-> [id |-> k, retries |-> 0]]
               /\ discardedItems = <<maxSize + 1>> ))

\* k+1 items were submitted to a queue of capacity k that has no sink
C8_Witness ==
    /\ maxSize > 0
    /\ handler = Null /\ webhookUrl = Null
    /\ Len(data) = maxSize
    /\ discardedItems = <<maxSize + 1>>

\* no trace of a failed delivery: no item waits for a retry, none carries a
\* retry count, none was dropped
NoFailure ==
    /\ timers = <<>>
    /\ \A k \in 1..Len(data) : data[k].retries = 0
    /\ \A item \in loops : item.retries = 0
    /\ \A i \in Ids : fate[i] # "dropped"

\* item i leaves the buffer in this step, popped by the loop and handed to
\* the sink, or taken by getItem(true)
Leaves(i) ==
    /\ i \in IdsOf(data)
    /\ i \notin IdsOf(data')
    /\ \/ attempts'[i] = attempts[i] + 1
       \/ fate'[i] = "removed" /\ Len(data') = Len(data) - 1

\* C9: while no delivery fails, items leave the buffer in submission order:
\* the item that leaves is the head of the buffer, and every item still
\* waiting was submitted after it.
C9_Fifo ==
    [][\A i \in Ids :
          (NoFailure /\ NoFailure' /\ Leaves(i))
          => (/\ data[1].id = i
              /\ \A j \in IdsOf(data) : i <= j)]_vars

\* two items were accepted; the first was delivered and the second, which
\* waited behind it, is now with the sink on its first attempt
C9_Witness ==
    /\ fate[1] = "delivered"
    /\ loops = {[id |-> 2, retries |-> 0]}
    /\ attempts[2] = 1
    /\ timers = <<>>

\* C10: once a handler is registered no webhook ever gets registered, once a
\* webhook is registered no handler ever gets registered, and a state never
\* has both.
C10_MutualExclusion ==
    /\ [](~(handler # Null /\ webhookUrl # Null))
    /\ [][/\ handler # Null => (handler' = handler /\ webhookUrl' = Null)
          /\ webhookUrl # Null => handler' = Null]_vars

\* the entry of item i among the pending timers
TimerOf(ts, i) == ts[CHOOSE k \in 1..Len(ts) : ts[k].item.id = i]

\* the timer of item i fires in this step
Fires(i) ==
    /\ i \in TimerIds(timers)
    /\ i \in TimerIds(timers') => TimerOf(timers', i) # TimerOf(timers, i)

\* C11: an item that fails with retry counter r < 5 gets the counter r+1 and
\* a timer of 2^r * 100 (100, 200, 400, 800, 1600 before the 1st..5th retry);
\* with r >= 5 it is dropped and no timer is set; the timer's callback puts
\* the item at the head of the buffer, where the loop takes it first.
C11_BackoffSchedule ==
    /\ [](\A k \in 1..Len(timers) :
             /\ timers[k].item.retries \in 1..5
             /\ timers[k].delay = <<100, 200, 400, 800, 1600>>[timers[k].item.retries])
    /\ [][\A item \in loops :
             (item \notin loops' /\ fate'[item.id] # "delivered") =>
                IF item.retries < 5
                THEN /\ Len(timers') > Len(timers)
                     /\ timers'[Len(timers) + 1] =
                           [item  |-> [id |-> item.id, retries |-> item.retries + 1],
                            delay |-> <<100, 200, 400, 800, 1600>>[item.retries + 1]]
                ELSE /\ fate'[item.id] = "dropped"
                     /\ item.id \notin TimerIds(timers') \cup IdsOf(data')]_vars
    /\ [][\A i \in Ids :
             Fires(i) =>
                \/ data' = <<TimerOf(timers, i).item>> \o data
                \/ /\ attempts'[i] = attempts[i] + 1
                   /\ Len(data') <= Len(data)]_vars

\* one item was dropped after its fifth retry and another waits for its
\* fifth retry on a timer of 1600
C11_Witness ==
    /\ \E i \in Ids : fate[i] = "dropped"
    /\ Len(timers) = 1
    /\ timers[1].item.retries = 5
    /\ timers[1].delay = 1600

\* C12: saving the buffer and loading the snapshot into a queue of the same
\* maxSize gives the buffer back, same items, same order, same retry
\* counters; a missing or corrupt snapshot loads as the empty buffer.
C12_RoundTrip ==
    /\ LoadData(SaveData(data), maxSize) = data
    /\ LoadData(Missing, maxSize) = <<>>
    /\ LoadData(Corrupt, maxSize) = <<>>

Rescheduled(i, r) ==
    \/ i \in TimerIds(timers) /\ TimerOf(timers, i).item.retries = r
    \/ \E k \in 1..Len(data) : data[k] = [id |-> i, retries |-> r]

\* C14: of two items that failed and were both rescheduled, the one submitted
\* first is retried first; in particular, when both have failed the same
\* number of times, no turn hands the later item to the sink while the
\* earlier one still waits for its retry.
C14_RetryOrder ==
    [][\A a, b \in Ids : \A r \in 1..MAX_RETRIES :
          (/\ a < b
           /\ Rescheduled(a, r)
           /\ Rescheduled(b, r)
           /\ attempts'[b] = attempts[b] + 1)
          => attempts'[a] = attempts[a] + 1]_vars

C17_OneInvocationPerItem ==
    [][(/\ nextId' # nextId
        /\ handler # Null
        /\ [id |-> nextId, retries |-> 0] \in loops')
       => attempts'[nextId] = 1]_vars

\* C18: every accepted item that is neither delivered, dropped nor removed
\* (it waits in the buffer, is in flight, or waits on a backoff timer) is in
\* the snapshot a restart would load; checked for queues without a handler,
\* where every accepted item was saved once by addItem.
C18_CrashDurability ==
    handler = Null =>
       \A i \in Ids : fate[i] = "live" => i \in IdsOf(LoadData(disk, maxSize))

\* item i is finished: delivered, dropped, or removed by getItem, drain or
\* destroy
Finished(i) == fate[i] \in {"delivered", "dropped", "removed"}

\* the number of places that hold item i: positions of the buffer,
\* deliveries in flight, pending timers, and the finished items
Places(i) ==
    Cardinality({k \in 1..Len(data) : data[k].id = i})
    + Cardinality({item \in loops : item.id = i})
    + Cardinality({k \in 1..Len(timers) : timers[k].item.id = i})
    + (IF Finished(i) THEN 1 ELSE 0)

\* C19: every accepted item is in exactly one place: once in the buffer, in
\* flight, on one backoff timer, or finished (delivered, dropped, taken or
\* drained); and a finished item stays finished and is not handed to the
\* sink again.
C19_ItemConservation ==
    /\ [](\A i \in Ids : fate[i] \notin {"new", "discarded"} => Places(i) = 1)
    /\ [][\A i \in Ids :
             Finished(i) => (fate'[i] = fate[i] /\ attempts'[i] = attempts[i])]_vars

====
